---- MODULE Spec2Model ----
(***************************************************************************)
(* The connection hook of the node editor (useConnection.ts): the three    *)
(* handlers onConnectStart, onConnect and onConnectEnd, the four transient *)
(* cells they read and write ($pendingConnection, $edgePendingUpdate,      *)
(* $mouseOverNode, $didUpdateEdge), the add-node popover cell and the      *)
(* edges of the graph store.                                               *)
(***************************************************************************)
EXTENDS Integers, Sequences, FiniteSets, TLC

VARIABLES
  pendingConnection,  \* $pendingConnection: NullRec or [nodeId, handleId, handleType, fieldTemplate]
  edgePendingUpdate,  \* $edgePendingUpdate: NullRec or an edge (written by the renderer)
  mouseOverNode,      \* $mouseOverNode: Null or a node id (written by the hover tracker)
  didUpdateEdge,      \* $didUpdateEdge
  edges,              \* the edges of the graph store
  connected,          \* history: onConnect has fired and no onConnectStart has fired since
  call,               \* the handler call that produced this state, its arguments and the cells it read
  effects             \* what that call sent out, in order: dispatched batches, refresh
                      \* requests and the request to open the add-node popover

vars == <<pendingConnection, edgePendingUpdate, mouseOverNode, didUpdateEdge,
          edges, connected, call, effects>>

(***************************************************************************)
(* Bounds                                                                  *)
(***************************************************************************)
\* The store holds at most MaxEdges edges: a call that would leave more is not made.
MaxEdges == 2

(***************************************************************************)
(* Values                                                                  *)
(***************************************************************************)
\* null / undefined of a string-typed value (node id, handle id, handle type)
Null == "null"
\* null of an object-typed value (pending connection, edge, connection, template)
NullRec == [null |-> TRUE]

\* The nodes of the store and the type tag of each (node.data.type).
nodes == [A |-> "num", B |-> "num", C |-> "num", D |-> "legacy"]
NodeIds == DOMAIN nodes

\* $templates: node type -> template; the order of a template's fields is the
\* order in which the resolver tries them. Type "legacy" has no template.
templates == [num |-> [outputs |-> <<[name |-> "out1", type |-> "int"]>>,
                       inputs  |-> <<[name |-> "in1", type |-> "int"],
                                     [name |-> "in2", type |-> "str"]>>]]

\* template = templates[type], undefined (NullRec) when absent
TemplateOf(type) == IF type \in DOMAIN templates THEN templates[type] ELSE NullRec

\* fieldTemplates[handleId], undefined (NullRec) when absent
FieldOf(fieldTemplates, handleId) ==
  IF \E i \in 1..Len(fieldTemplates) : fieldTemplates[i].name = handleId
  THEN fieldTemplates[CHOOSE i \in 1..Len(fieldTemplates) : fieldTemplates[i].name = handleId]
  ELSE NullRec

\* What the renderer may pass to onConnectStart, as <<nodeId, handleId, handleType>>:
\* the handles of the nodes, lookups that miss (a node that is not in the store,
\* a node whose type has no template, a handle on the wrong side), and events
\* with a field absent.
StartEvents ==
  {<<"A", "out1", "source">>, <<"B", "in1", "target">>, <<"B", "in2", "target">>}
    \cup {<<"X", "out1", "source">>, <<"D", "out1", "source">>, <<"A", "in1", "source">>}
    \cup {<<Null, "out1", "source">>, <<"A", Null, "source">>, <<"A", "out1", Null>>}

Connection(source, sourceHandle, target, targetHandle) ==
  [source |-> source, sourceHandle |-> sourceHandle,
   target |-> target, targetHandle |-> targetHandle]

Endpoints(e) == Connection(e.source, e.sourceHandle, e.target, e.targetHandle)

(***************************************************************************)
(* Collaborators of the hook                                               *)
(***************************************************************************)
\* A fresh edge identifier: the least one that no edge of the store and no edge
\* pending update carries.
FreshId(es, pendingUpdate) ==
  LET used == {e.id : e \in es \cup (IF pendingUpdate = NullRec THEN {} ELSE {pendingUpdate})}
  IN CHOOSE i \in 1..(Cardinality(used) + 1) : i \notin used /\ \A j \in 1..(i - 1) : j \in used

\* connectionToEdge: the connection as an edge, under the identifier it is given.
connectionToEdge(connection, id) ==
  [id |-> id, source |-> connection.source, sourceHandle |-> connection.sourceHandle,
   target |-> connection.target, targetHandle |-> connection.targetHandle]

\* The type-compatibility policy of the resolver (external policy).
Compatible(outType, inType) == outType = inType

\* A full candidate is valid: both nodes exist and differ, both handles are in
\* their node's template, the types are compatible, and no other edge has the
\* same endpoints (the edge being replaced does not count).
ValidCandidate(c, ns, es, ts, edgeBeingReplaced) ==
  /\ c.source # c.target
  /\ c.source \in DOMAIN ns /\ c.target \in DOMAIN ns
  /\ ns[c.source] \in DOMAIN ts /\ ns[c.target] \in DOMAIN ts
  /\ LET out == FieldOf(ts[ns[c.source]].outputs, c.sourceHandle)
         in_ == FieldOf(ts[ns[c.target]].inputs, c.targetHandle)
     IN /\ out # NullRec /\ in_ # NullRec
        /\ Compatible(out.type, in_.type)
  /\ \A e \in es : Endpoints(e) = c => e = edgeBeingReplaced

\* The candidates of a call in the order they are tried: the one candidate when
\* both handles are given, else one per field of the open side's template.
Candidates(source, sourceHandle, target, targetHandle, ns, ts) ==
  LET fieldsOf(n, side) ==
        IF n \in DOMAIN ns /\ ns[n] \in DOMAIN ts THEN ts[ns[n]][side] ELSE <<>>
  IN IF sourceHandle # Null /\ targetHandle # Null
       THEN <<Connection(source, sourceHandle, target, targetHandle)>>
     ELSE IF sourceHandle # Null
       THEN [i \in 1..Len(fieldsOf(target, "inputs")) |->
               Connection(source, sourceHandle, target, fieldsOf(target, "inputs")[i].name)]
     ELSE IF targetHandle # Null
       THEN [i \in 1..Len(fieldsOf(source, "outputs")) |->
               Connection(source, fieldsOf(source, "outputs")[i].name, target, targetHandle)]
     ELSE <<>>

\* getFirstValidConnection: the first valid candidate, or null.
getFirstValidConnection(source, sourceHandle, target, targetHandle, ns, es, ts, edgeBeingReplaced) ==
  LET cs == Candidates(source, sourceHandle, target, targetHandle, ns, ts)
      ok == {i \in 1..Len(cs) : ValidCandidate(cs[i], ns, es, ts, edgeBeingReplaced)}
  IN IF ok = {} THEN NullRec
     ELSE cs[CHOOSE i \in ok : \A j \in ok : i <= j]

\* One edge change applied to the edges of the store.
ApplyEdgeChange(es, change) ==
  IF change.type = "add" THEN es \cup {change.item}
  ELSE {e \in es : e.id # change.id}

\* edgesChanged: the changes of a batch applied in array order.
RECURSIVE edgesChanged(_, _)
edgesChanged(es, changes) ==
  IF changes = <<>> THEN es
  ELSE edgesChanged(ApplyEdgeChange(es, Head(changes)), Tail(changes))

AddChange(edge) == [type |-> "add", item |-> edge]
RemoveChange(id) == [type |-> "remove", id |-> id]

\* The two kinds of effect a handler sends out.
Dispatch(changes) == [kind |-> "dispatch", changes |-> changes]
Refresh(nodeIds) == [kind |-> "refresh", nodes |-> nodeIds]
\* $addNodeCmdk.set(true): the hook only ever writes this cell, so the write is
\* an effect like the other two.
OpenAddNodeCmdk == [kind |-> "addNodeCmdk"]

(***************************************************************************)
(* The record of a handler call                                            *)
(***************************************************************************)
\* The cells as the call found them.
Cells == [pendingConnection |-> pendingConnection, edgePendingUpdate |-> edgePendingUpdate,
          mouseOverNode |-> mouseOverNode, didUpdateEdge |-> didUpdateEdge,
          edges |-> edges, connected |-> connected]

NoCall == [handler |-> "none"]

StartCall(nodeId, handleId, handleType, error) ==
  [handler |-> "onConnectStart", nodeId |-> nodeId, handleId |-> handleId,
   handleType |-> handleType, error |-> error, pre |-> Cells]

ConnectCall(connection) ==
  [handler |-> "onConnect", connection |-> connection, error |-> FALSE, pre |-> Cells]

EndCall(connection) ==
  [handler |-> "onConnectEnd", candidate |-> NullRec, connection |-> connection,
   error |-> FALSE, pre |-> Cells]

\* An onConnectEnd call that went to the resolver: what it handed to it and
\* what it got back.
EndResolverCall(candidate, connection) ==
  [handler |-> "onConnectEnd", candidate |-> candidate, connection |-> connection,
   error |-> FALSE, pre |-> Cells]

(***************************************************************************)
(* Init                                                                    *)
(***************************************************************************)
Init ==
  /\ pendingConnection = NullRec
  /\ edgePendingUpdate = NullRec
  /\ mouseOverNode = Null
  /\ didUpdateEdge = FALSE
  /\ edges = {}
  /\ connected = FALSE
  /\ call = NoCall
  /\ effects = <<>>

(***************************************************************************)
(* The handlers                                                            *)
(***************************************************************************)
\* Mutant: the field is looked up on the wrong side of the template.
StartLookup_WrongSide(nodeId, handleId, handleType) ==
  IF nodeId \notin NodeIds THEN NullRec
  ELSE LET template == TemplateOf(nodes[nodeId])
       IN IF template = NullRec THEN NullRec
          ELSE FieldOf(template[IF handleType = "source" THEN "inputs" ELSE "outputs"], handleId)

\* The field template onConnectStart finds for its arguments, or NullRec when
\* the node, its template or the field is missing.
StartLookup(nodeId, handleId, handleType) ==
  IF nodeId \notin NodeIds THEN NullRec
  ELSE LET template == TemplateOf(nodes[nodeId])
       IN IF template = NullRec THEN NullRec
          ELSE FieldOf(template[IF handleType = "source" THEN "outputs" ELSE "inputs"], handleId)

\* Mutant: an event with a field absent is taken for a lookup that misses.
onConnectStart_NoAssert(nodeId, handleId, handleType) ==
  LET fieldTemplate == StartLookup(nodeId, handleId, handleType)
  IN /\ call = NoCall
     /\ call' = StartCall(nodeId, handleId, handleType, FALSE)
     /\ effects' = <<>>
     /\ connected' = FALSE
     /\ pendingConnection' =
          IF fieldTemplate = NullRec THEN pendingConnection
          ELSE [nodeId |-> nodeId, handleId |-> handleId, handleType |-> handleType,
                fieldTemplate |-> fieldTemplate]
     /\ UNCHANGED <<edgePendingUpdate, mouseOverNode, didUpdateEdge, edges>>

\* Mutant: a lookup that misses clears the pending connection.
onConnectStart_ClearsOnMiss(nodeId, handleId, handleType) ==
  LET invalid == nodeId = Null \/ handleId = Null \/ handleType = Null
      fieldTemplate == StartLookup(nodeId, handleId, handleType)
  IN /\ call = NoCall
     /\ call' = StartCall(nodeId, handleId, handleType, invalid)
     /\ effects' = <<>>
     /\ connected' = FALSE
     /\ pendingConnection' =
          IF invalid THEN pendingConnection
          ELSE IF fieldTemplate = NullRec THEN NullRec
          ELSE [nodeId |-> nodeId, handleId |-> handleId, handleType |-> handleType,
                fieldTemplate |-> fieldTemplate]
     /\ UNCHANGED <<edgePendingUpdate, mouseOverNode, didUpdateEdge, edges>>

onConnectStart(nodeId, handleId, handleType) ==
  LET invalid == nodeId = Null \/ handleId = Null \/ handleType = Null
      fieldTemplate == StartLookup(nodeId, handleId, handleType)
  IN /\ call = NoCall
     /\ call' = StartCall(nodeId, handleId, handleType, invalid)
     /\ effects' = <<>>
     /\ connected' = FALSE
     /\ pendingConnection' =
          IF invalid \/ fieldTemplate = NullRec THEN pendingConnection
          ELSE [nodeId |-> nodeId, handleId |-> handleId, handleType |-> handleType,
                fieldTemplate |-> fieldTemplate]
     /\ UNCHANGED <<edgePendingUpdate, mouseOverNode, didUpdateEdge, edges>>

\* Mutant: the nodes of the new edge are not refreshed.
onConnect_NoRefresh(connection) ==
  /\ call = NoCall
  /\ Cardinality(edges) < MaxEdges
  /\ LET newEdge == connectionToEdge(connection, FreshId(edges, edgePendingUpdate))
         edgeChanges == <<AddChange(newEdge)>>
     IN /\ edges' = edgesChanged(edges, edgeChanges)
        /\ effects' = <<Dispatch(edgeChanges)>>
  /\ pendingConnection' = NullRec
  /\ connected' = TRUE
  /\ call' = ConnectCall(connection)
  /\ UNCHANGED <<edgePendingUpdate, mouseOverNode, didUpdateEdge>>

\* Mutant: the connection is validated again, and dropped when it fails.
onConnect_Validated(connection) ==
  /\ call = NoCall
  /\ Cardinality(edges) < MaxEdges
  /\ LET newEdge == connectionToEdge(connection, FreshId(edges, edgePendingUpdate))
         edgeChanges == <<AddChange(newEdge)>>
     IN IF ValidCandidate(connection, nodes, edges, templates, edgePendingUpdate)
        THEN /\ edges' = edgesChanged(edges, edgeChanges)
             /\ effects' = <<Dispatch(edgeChanges), Refresh(<<newEdge.source, newEdge.target>>)>>
        ELSE /\ edges' = edges
             /\ effects' = <<>>
  /\ pendingConnection' = NullRec
  /\ connected' = TRUE
  /\ call' = ConnectCall(connection)
  /\ UNCHANGED <<edgePendingUpdate, mouseOverNode, didUpdateEdge>>

\* Mutant: the pending connection is not cleared.
onConnect_KeepsPending(connection) ==
  /\ call = NoCall
  /\ Cardinality(edges) < MaxEdges
  /\ LET newEdge == connectionToEdge(connection, FreshId(edges, edgePendingUpdate))
         edgeChanges == <<AddChange(newEdge)>>
     IN /\ edges' = edgesChanged(edges, edgeChanges)
        /\ effects' = <<Dispatch(edgeChanges), Refresh(<<newEdge.source, newEdge.target>>)>>
  /\ connected' = TRUE
  /\ call' = ConnectCall(connection)
  /\ UNCHANGED <<pendingConnection, edgePendingUpdate, mouseOverNode, didUpdateEdge>>

onConnect(connection) ==
  /\ call = NoCall
  /\ Cardinality(edges) < MaxEdges
  /\ LET newEdge == connectionToEdge(connection, FreshId(edges, edgePendingUpdate))
         edgeChanges == <<AddChange(newEdge)>>
     IN /\ edges' = edgesChanged(edges, edgeChanges)
        /\ effects' = <<Dispatch(edgeChanges), Refresh(<<newEdge.source, newEdge.target>>)>>
  /\ pendingConnection' = NullRec
  /\ connected' = TRUE
  /\ call' = ConnectCall(connection)
  /\ UNCHANGED <<edgePendingUpdate, mouseOverNode, didUpdateEdge>>

\* Mutant: the side the pending connection fills is always the source side.
EndCandidate_AlwaysSource ==
  [source |-> pendingConnection.nodeId, sourceHandle |-> pendingConnection.handleId,
   target |-> mouseOverNode, targetHandle |-> Null,
   edgeBeingReplaced |-> edgePendingUpdate]

\* What onConnectEnd hands to the resolver, from the cells it read: the pending
\* connection on the side of its handle type, the node under the mouse on the
\* other side, and the edge pending update as the edge being replaced.
EndCandidate ==
  LET handleType == pendingConnection.handleType
  IN [source |-> IF handleType = "source" THEN pendingConnection.nodeId ELSE mouseOverNode,
      sourceHandle |-> IF handleType = "source" THEN pendingConnection.handleId ELSE Null,
      target |-> IF handleType = "target" THEN pendingConnection.nodeId ELSE mouseOverNode,
      targetHandle |-> IF handleType = "target" THEN pendingConnection.handleId ELSE Null,
      edgeBeingReplaced |-> edgePendingUpdate]

\* Mutant: the first candidate is taken as it is, valid or not.
EndConnection_Unchecked ==
  LET c == EndCandidate
      cs == Candidates(c.source, c.sourceHandle, c.target, c.targetHandle, nodes, templates)
  IN IF cs = <<>> THEN NullRec ELSE cs[1]

\* The connection the resolver returns to onConnectEnd.
EndConnection ==
  LET c == EndCandidate
  IN getFirstValidConnection(c.source, c.sourceHandle, c.target, c.targetHandle,
                             nodes, edges, templates, c.edgeBeingReplaced)

\* Mutant: the bail-out test forgets the edge pending update.
BailOut_OnlyFlag == didUpdateEdge

\* Mutant: the bail-out test forgets the flag.
BailOut_NoFlag == edgePendingUpdate # NullRec /\ mouseOverNode = Null

\* The bail-out test of onConnectEnd.
BailOut == (edgePendingUpdate # NullRec /\ mouseOverNode = Null) \/ didUpdateEdge

\* Mutant: bailing out uses the flag up.
EndBail_ResetsFlag ==
  /\ pendingConnection' = NullRec
  /\ didUpdateEdge' = FALSE
  /\ call' = EndCall(NullRec)
  /\ effects' = <<>>
  /\ UNCHANGED <<edgePendingUpdate, mouseOverNode, edges, connected>>

\* Mutant: bailing out leaves the pending connection.
EndBail_KeepsPending ==
  /\ call' = EndCall(NullRec)
  /\ effects' = <<>>
  /\ UNCHANGED <<pendingConnection, edgePendingUpdate, mouseOverNode, didUpdateEdge,
                 edges, connected>>

\* Bail out: clear the pending connection and return.
EndBail ==
  /\ pendingConnection' = NullRec
  /\ call' = EndCall(NullRec)
  /\ effects' = <<>>
  /\ UNCHANGED <<edgePendingUpdate, mouseOverNode, didUpdateEdge, edges, connected>>

\* No pending connection: return.
EndNothing ==
  /\ call' = EndCall(NullRec)
  /\ effects' = <<>>
  /\ UNCHANGED <<pendingConnection, edgePendingUpdate, mouseOverNode, didUpdateEdge,
                 edges, connected>>

\* Mutant: the replaced edge is removed before the new edge is added.
EndCommit_RemoveFirst(connection) ==
  LET newEdge == connectionToEdge(connection, FreshId(edges, edgePendingUpdate))
      edgeChanges ==
        IF edgePendingUpdate # NullRec
        THEN <<RemoveChange(edgePendingUpdate.id), AddChange(newEdge)>>
        ELSE <<AddChange(newEdge)>>
      nodesToUpdate ==
        IF edgePendingUpdate # NullRec
        THEN <<newEdge.source, newEdge.target,
               edgePendingUpdate.source, edgePendingUpdate.target>>
        ELSE <<newEdge.source, newEdge.target>>
  IN /\ didUpdateEdge' = (edgePendingUpdate # NullRec \/ didUpdateEdge)
     /\ edges' = edgesChanged(edges, edgeChanges)
     /\ Cardinality(edges') <= MaxEdges
     /\ effects' = <<Dispatch(edgeChanges), Refresh(nodesToUpdate)>>

\* Mutant: the nodes of the replaced edge are not refreshed.
EndCommit_NoOldRefresh(connection) ==
  LET newEdge == connectionToEdge(connection, FreshId(edges, edgePendingUpdate))
      edgeChanges ==
        IF edgePendingUpdate # NullRec
        THEN <<AddChange(newEdge), RemoveChange(edgePendingUpdate.id)>>
        ELSE <<AddChange(newEdge)>>
  IN /\ didUpdateEdge' = (edgePendingUpdate # NullRec \/ didUpdateEdge)
     /\ edges' = edgesChanged(edges, edgeChanges)
     /\ Cardinality(edges') <= MaxEdges
     /\ effects' = <<Dispatch(edgeChanges), Refresh(<<newEdge.source, newEdge.target>>)>>

\* Mutant: the replaced edge is not removed.
EndCommit_NoRemove(connection) ==
  LET newEdge == connectionToEdge(connection, FreshId(edges, edgePendingUpdate))
      edgeChanges == <<AddChange(newEdge)>>
      nodesToUpdate ==
        IF edgePendingUpdate # NullRec
        THEN <<newEdge.source, newEdge.target,
               edgePendingUpdate.source, edgePendingUpdate.target>>
        ELSE <<newEdge.source, newEdge.target>>
  IN /\ didUpdateEdge' = (edgePendingUpdate # NullRec \/ didUpdateEdge)
     /\ edges' = edgesChanged(edges, edgeChanges)
     /\ Cardinality(edges') <= MaxEdges
     /\ effects' = <<Dispatch(edgeChanges), Refresh(nodesToUpdate)>>

\* The resolver found a connection: add its edge, remove the edge pending
\* update if there is one, refresh the nodes of both.
EndCommit(connection) ==
  LET newEdge == connectionToEdge(connection, FreshId(edges, edgePendingUpdate))
      edgeChanges ==
        IF edgePendingUpdate # NullRec
        THEN <<AddChange(newEdge), RemoveChange(edgePendingUpdate.id)>>
        ELSE <<AddChange(newEdge)>>
      nodesToUpdate ==
        IF edgePendingUpdate # NullRec
        THEN <<newEdge.source, newEdge.target,
               edgePendingUpdate.source, edgePendingUpdate.target>>
        ELSE <<newEdge.source, newEdge.target>>
  IN /\ didUpdateEdge' = (edgePendingUpdate # NullRec \/ didUpdateEdge)
     /\ edges' = edgesChanged(edges, edgeChanges)
     /\ Cardinality(edges') <= MaxEdges
     /\ effects' = <<Dispatch(edgeChanges), Refresh(nodesToUpdate)>>

\* Mutant: a committed reconnection clears the edge pending update.
EndOverNode_ConsumesEdge ==
  LET connection == EndConnection
  IN /\ call' = EndResolverCall(EndCandidate, connection)
     /\ IF connection # NullRec
        THEN EndCommit(connection) /\ edgePendingUpdate' = NullRec
        ELSE effects' = <<>> /\ UNCHANGED <<didUpdateEdge, edges, edgePendingUpdate>>
     /\ pendingConnection' = NullRec
     /\ UNCHANGED <<mouseOverNode, connected>>

\* Mutant: a connection the resolver rejects opens the add-node popover.
EndOverNode_OpensOnMiss ==
  LET connection == EndConnection
  IN /\ call' = EndResolverCall(EndCandidate, connection)
     /\ IF connection # NullRec
        THEN EndCommit(connection)
        ELSE effects' = <<OpenAddNodeCmdk>> /\ UNCHANGED <<didUpdateEdge, edges>>
     /\ pendingConnection' = NullRec
     /\ UNCHANGED <<edgePendingUpdate, mouseOverNode, connected>>

\* Mutant: a connection the resolver rejects leaves the pending connection.
EndOverNode_KeepsPendingOnMiss ==
  LET connection == EndConnection
  IN /\ call' = EndResolverCall(EndCandidate, connection)
     /\ IF connection # NullRec
        THEN EndCommit(connection) /\ pendingConnection' = NullRec
        ELSE effects' = <<>> /\ UNCHANGED <<didUpdateEdge, edges, pendingConnection>>
     /\ UNCHANGED <<edgePendingUpdate, mouseOverNode, connected>>

\* The drag ended over a node: ask the resolver, commit what it found, clear
\* the pending connection.
EndOverNode ==
  LET connection == EndConnection
  IN /\ call' = EndResolverCall(EndCandidate, connection)
     /\ IF connection # NullRec
        THEN EndCommit(connection)
        ELSE effects' = <<>> /\ UNCHANGED <<didUpdateEdge, edges>>
     /\ pendingConnection' = NullRec
     /\ UNCHANGED <<edgePendingUpdate, mouseOverNode, connected>>

\* Mutant: the pending connection is cleared over the empty canvas too.
EndOverCanvas_ClearsPending ==
  /\ call' = EndCall(NullRec)
  /\ effects' = <<OpenAddNodeCmdk>>
  /\ pendingConnection' = NullRec
  /\ UNCHANGED <<edgePendingUpdate, mouseOverNode, didUpdateEdge, edges, connected>>

\* The drag ended over the empty canvas: open the add-node popover.
EndOverCanvas ==
  /\ call' = EndCall(NullRec)
  /\ effects' = <<OpenAddNodeCmdk>>
  /\ UNCHANGED <<pendingConnection, edgePendingUpdate, mouseOverNode, didUpdateEdge,
                 edges, connected>>

\* Mutant: the empty canvas is tested before the pending connection.
onConnectEnd_CanvasFirst ==
  /\ call = NoCall
  /\ IF BailOut THEN EndBail
     ELSE IF mouseOverNode = Null THEN EndOverCanvas
     ELSE IF pendingConnection = NullRec THEN EndNothing
     ELSE EndOverNode

onConnectEnd ==
  /\ call = NoCall
  /\ IF BailOut THEN EndBail
     ELSE IF pendingConnection = NullRec THEN EndNothing
     ELSE IF mouseOverNode # Null THEN EndOverNode
     ELSE EndOverCanvas

\* The handler has returned to the event loop: the next event is served, and
\* nothing of the finished call is left to observe.
Return ==
  /\ call # NoCall
  /\ call' = NoCall
  /\ effects' = <<>>
  /\ UNCHANGED <<pendingConnection, edgePendingUpdate, mouseOverNode, didUpdateEdge,
                 edges, connected>>

(***************************************************************************)
(* The writers outside the hook                                            *)
(***************************************************************************)
\* The other writers run between two handler calls.
Outside == call = NoCall /\ UNCHANGED <<call, effects>>

\* The renderer starts a reconnection of an edge of the store.
setEdgePendingUpdate(edge) ==
  /\ edge \in edges
  /\ edgePendingUpdate # edge
  /\ edgePendingUpdate' = edge
  /\ Outside
  /\ UNCHANGED <<pendingConnection, mouseOverNode, didUpdateEdge, edges, connected>>

\* The renderer clears the edge once the gesture resolves.
clearEdgePendingUpdate ==
  /\ edgePendingUpdate # NullRec
  /\ edgePendingUpdate' = NullRec
  /\ Outside
  /\ UNCHANGED <<pendingConnection, mouseOverNode, didUpdateEdge, edges, connected>>

\* The hover tracker follows the pointer.
setMouseOverNode(nodeId) ==
  /\ mouseOverNode # nodeId
  /\ mouseOverNode' = nodeId
  /\ Outside
  /\ UNCHANGED <<pendingConnection, edgePendingUpdate, didUpdateEdge, edges, connected>>

\* The reconnect logic of the renderer resets the flag, once the edge pending
\* update is cleared or names an edge of the store again.
resetDidUpdateEdge ==
  /\ didUpdateEdge
  /\ edgePendingUpdate = NullRec \/ edgePendingUpdate \in edges
  /\ didUpdateEdge' = FALSE
  /\ Outside
  /\ UNCHANGED <<pendingConnection, edgePendingUpdate, mouseOverNode, edges, connected>>

\* The connections the renderer may hand to onConnect: links between handles of
\* the nodes, a self-loop and a link between incompatible types among them.
RendererConnections ==
  {Connection("A", "out1", "B", "in1"), Connection("B", "out1", "A", "in1"),
   Connection("A", "out1", "A", "in1"),
   Connection("A", "out1", "B", "in2")}

\* The connections a renderer confirms whose own validity check is the policy
\* of the resolver, with no edge being replaced.
ValidRendererConnections ==
  {c \in RendererConnections : ValidCandidate(c, nodes, edges, templates, NullRec)}

OutsideStep ==
  \/ \E edge \in edges : setEdgePendingUpdate(edge)
  \/ clearEdgePendingUpdate
  \/ \E nodeId \in NodeIds \cup {Null} : setMouseOverNode(nodeId)
  \/ resetDidUpdateEdge

Next ==
  \/ \E ev \in StartEvents : onConnectStart(ev[1], ev[2], ev[3])
  \/ \E connection \in ValidRendererConnections : onConnect(connection)
  \/ onConnectEnd
  \/ Return
  \/ OutsideStep

Spec == Init /\ [][Next]_vars

\* The same hook under a renderer whose confirmations are not checked at all.
NextAny ==
  \/ \E ev \in StartEvents : onConnectStart(ev[1], ev[2], ev[3])
  \/ \E connection \in RendererConnections : onConnect(connection)
  \/ onConnectEnd
  \/ Return
  \/ OutsideStep

SpecAny == Init /\ [][NextAny]_vars

(***************************************************************************)
(* What a finished call shows                                              *)
(***************************************************************************)
Returned(handler) == call.handler = handler

\* The batches dispatched and the refresh requests issued by the call, in order.
Dispatched == SelectSeq(effects, LAMBDA x : x.kind = "dispatch")
Refreshed == SelectSeq(effects, LAMBDA x : x.kind = "refresh")
AddNodeRequested == \E i \in 1..Len(effects) : effects[i].kind = "addNodeCmdk"

SeqToSet(seq) == {seq[i] : i \in 1..Len(seq)}

\* onConnectEnd went to the resolver and committed the connection it returned.
EndCommitted == Returned("onConnectEnd") /\ call.connection # NullRec

\* The call changed nothing and sent nothing out.
NoEffect ==
  /\ effects = <<>>
  /\ edges = call.pre.edges
  /\ didUpdateEdge = call.pre.didUpdateEdge

(***************************************************************************)
(* Claims                                                                  *)
(***************************************************************************)

\* C1 as stated: whenever onConnect or onConnectEnd is invoked while a pending
\* connection is set, the pending connection is none when the handler returns.
C1_AlwaysReturnsToIdle ==
  (Returned("onConnect") \/ Returned("onConnectEnd"))
    => (call.pre.pendingConnection # NullRec => pendingConnection = NullRec)

\* C1 amended: a terminal handler invoked while a pending connection is set
\* leaves it none, except onConnectEnd over the empty canvas (no node under the
\* mouse, no edge pending update, flag false), which leaves it as it was.
C1_ReturnsToIdleUnlessOverCanvas ==
  ((Returned("onConnect") \/ Returned("onConnectEnd")) /\ call.pre.pendingConnection # NullRec)
    => IF /\ Returned("onConnectEnd")
          /\ call.pre.mouseOverNode = Null
          /\ call.pre.edgePendingUpdate = NullRec
          /\ ~call.pre.didUpdateEdge
       THEN pendingConnection = call.pre.pendingConnection
       ELSE pendingConnection = NullRec

\* onConnectEnd bailed out of a drag in progress and cleared it.
C1_Witness ==
  /\ Returned("onConnectEnd")
  /\ call.pre.pendingConnection # NullRec
  /\ call.pre.didUpdateEdge
  /\ call.pre.mouseOverNode = Null
  /\ pendingConnection = NullRec

\* C2: onConnectEnd with an edge pending update and no node under the mouse
\* dispatches nothing, refreshes nothing, does not ask for the add-node popover
\* and leaves the pending connection none, whatever the pending connection and
\* the flag were.
C2_BailOutPrecedence ==
  (/\ Returned("onConnectEnd")
   /\ call.pre.edgePendingUpdate # NullRec
   /\ call.pre.mouseOverNode = Null)
    => /\ Dispatched = <<>>
       /\ Refreshed = <<>>
       /\ ~AddNodeRequested
       /\ edges = call.pre.edges
       /\ pendingConnection = NullRec

\* The bail-out took a call that had a drag in progress and the flag false.
C2_Witness ==
  /\ Returned("onConnectEnd")
  /\ call.pre.edgePendingUpdate # NullRec
  /\ call.pre.mouseOverNode = Null
  /\ call.pre.pendingConnection # NullRec
  /\ ~call.pre.didUpdateEdge

\* C3: onConnectEnd with a pending connection, the flag false, an edge E
\* pending update, a node under the mouse and a connection from the resolver
\* dispatches exactly one batch, [add newEdge, remove E.id], issues exactly one
\* refresh request, for the nodes of the new edge and of E, sets the flag and
\* clears the pending connection.
C3_ReconnectionCommit ==
  (/\ EndCommitted
   /\ call.pre.pendingConnection # NullRec
   /\ ~call.pre.didUpdateEdge
   /\ call.pre.edgePendingUpdate # NullRec
   /\ call.pre.mouseOverNode # Null)
    => LET E == call.pre.edgePendingUpdate
       IN /\ Len(Dispatched) = 1
          /\ Len(Dispatched[1].changes) = 2
          /\ Dispatched[1].changes[1].type = "add"
          /\ Endpoints(Dispatched[1].changes[1].item) = call.connection
          /\ Dispatched[1].changes[2] = RemoveChange(E.id)
          /\ Len(Refreshed) = 1
          /\ SeqToSet(Refreshed[1].nodes) =
               {call.connection.source, call.connection.target, E.source, E.target}
          /\ Len(effects) = 2
          /\ didUpdateEdge
          /\ pendingConnection = NullRec

\* A reconnection moved an edge to another node: three nodes are refreshed.
C3_Witness ==
  /\ EndCommitted
  /\ call.pre.edgePendingUpdate # NullRec
  /\ call.pre.edgePendingUpdate \in call.pre.edges
  /\ Endpoints(call.pre.edgePendingUpdate) # call.connection
  /\ Len(Refreshed) = 1
  /\ Cardinality(SeqToSet(Refreshed[1].nodes)) = 3

\* The edges of a set that have the endpoints of a connection.
Matching(es, c) == {e \in es : Endpoints(e) = c}

\* C4: a reconnection of an edge E of the store that resolves to the endpoints
\* of E dispatches [add E', remove E], E' having the endpoints of E, and the
\* store, having applied it in array order, holds exactly one edge with those
\* endpoints.
C4_SelfReconnection ==
  (/\ EndCommitted
   /\ call.pre.edgePendingUpdate \in call.pre.edges
   /\ call.connection = Endpoints(call.pre.edgePendingUpdate))
    => LET E == call.pre.edgePendingUpdate
       IN /\ Len(Dispatched) = 1
          /\ Len(Dispatched[1].changes) = 2
          /\ Dispatched[1].changes[1].type = "add"
          /\ Endpoints(Dispatched[1].changes[1].item) = Endpoints(E)
          /\ Dispatched[1].changes[2] = RemoveChange(E.id)
          /\ edges = edgesChanged(call.pre.edges, Dispatched[1].changes)
          /\ Cardinality(Matching(edges, Endpoints(E))) = 1

\* An edge was reconnected to its own endpoints, and the store holds its
\* replacement, not the edge.
C4_Witness ==
  /\ EndCommitted
  /\ call.pre.edgePendingUpdate \in call.pre.edges
  /\ call.connection = Endpoints(call.pre.edgePendingUpdate)
  /\ call.pre.edgePendingUpdate \notin edges
  /\ Matching(edges, call.connection) # {}

\* C5: an onConnectEnd call made while the flag is true (a reconnection has
\* been committed and the flag not reset since) dispatches no mutation and
\* issues no refresh, whatever the other cells hold.
C5_NoDuplicateCommit ==
  (Returned("onConnectEnd") /\ call.pre.didUpdateEdge)
    => /\ Dispatched = <<>>
       /\ Refreshed = <<>>
       /\ edges = call.pre.edges

\* A second drag end came with the flag true, a drag in progress and a node
\* under the mouse.
C5_Witness ==
  /\ Returned("onConnectEnd")
  /\ call.pre.didUpdateEdge
  /\ call.pre.pendingConnection # NullRec
  /\ call.pre.mouseOverNode # Null
  /\ call.pre.edgePendingUpdate # NullRec

\* The three lookups of onConnectStart succeed for these arguments.
LookupSucceeds(nodeId, handleId, handleType) ==
  /\ nodeId \in DOMAIN nodes
  /\ nodes[nodeId] \in DOMAIN templates
  /\ \E f \in SeqToSet(templates[nodes[nodeId]][IF handleType = "source" THEN "outputs" ELSE "inputs"]) :
       f.name = handleId

\* C6 as stated: after an onConnectStart call the tracker holds a pending
\* connection, and it is the one the call describes.
C6_HoldsMostRecentStart ==
  (Returned("onConnectStart") /\ ~call.error)
    => /\ pendingConnection # NullRec
       /\ pendingConnection.nodeId = call.nodeId
       /\ pendingConnection.handleId = call.handleId
       /\ pendingConnection.handleType = call.handleType

\* C6 amended: after an onConnectStart call whose lookups succeed the tracker
\* holds the pending connection the call describes; a call whose lookup misses
\* leaves the tracker as it was.
C6_HoldsMostRecentFoundStart ==
  (Returned("onConnectStart") /\ ~call.error)
    => IF LookupSucceeds(call.nodeId, call.handleId, call.handleType)
       THEN /\ pendingConnection # NullRec
            /\ pendingConnection.nodeId = call.nodeId
            /\ pendingConnection.handleId = call.handleId
            /\ pendingConnection.handleType = call.handleType
       ELSE pendingConnection = call.pre.pendingConnection

\* A second onConnectStart replaced the pending connection of the first.
C6_Witness ==
  /\ Returned("onConnectStart")
  /\ call.pre.pendingConnection # NullRec
  /\ pendingConnection # NullRec
  /\ pendingConnection # call.pre.pendingConnection
  /\ pendingConnection.nodeId = call.nodeId

\* C7: every onConnect call dispatches exactly one batch, of exactly one add of
\* the edge of its connection, issues one refresh request for [source, target]
\* of that edge and leaves the pending connection none, whatever the connection
\* and the cells are.
C7_ConnectCommitsUnconditionally ==
  Returned("onConnect")
    => /\ Len(effects) = 2
       /\ effects[1].kind = "dispatch"
       /\ Len(effects[1].changes) = 1
       /\ effects[1].changes[1].type = "add"
       /\ Endpoints(effects[1].changes[1].item) = call.connection
       /\ effects[2] = Refresh(<<call.connection.source, call.connection.target>>)
       /\ edges = call.pre.edges \cup {effects[1].changes[1].item}
       /\ pendingConnection = NullRec

\* onConnect committed a connection the resolver would have rejected: a
\* self-loop, or a duplicate of an edge of the store.
C7_Witness ==
  /\ Returned("onConnect")
  /\ \/ call.connection.source = call.connection.target
     \/ Matching(call.pre.edges, call.connection) # {}
  /\ Len(Dispatched) = 1

\* C8: onConnectEnd with a pending connection, no node under the mouse, no
\* edge pending update and the flag false asks for the add-node popover and
\* leaves the pending connection, the store and the flag as they were, with no
\* mutation and no refresh.
C8_DragEndOverCanvas ==
  (/\ Returned("onConnectEnd")
   /\ call.pre.pendingConnection # NullRec
   /\ call.pre.mouseOverNode = Null
   /\ call.pre.edgePendingUpdate = NullRec
   /\ ~call.pre.didUpdateEdge)
    => /\ AddNodeRequested
       /\ pendingConnection = call.pre.pendingConnection
       /\ Dispatched = <<>>
       /\ Refreshed = <<>>
       /\ edges = call.pre.edges
       /\ didUpdateEdge = call.pre.didUpdateEdge

\* A drag ended over the empty canvas.
C8_Witness ==
  /\ Returned("onConnectEnd")
  /\ call.pre.pendingConnection # NullRec
  /\ call.pre.mouseOverNode = Null
  /\ call.pre.edgePendingUpdate = NullRec
  /\ ~call.pre.didUpdateEdge
  /\ AddNodeRequested

\* C9: onConnectEnd with a pending connection, a node under the mouse, the
\* flag false and no connection from the resolver dispatches nothing,
\* refreshes nothing, does not ask for the add-node popover, leaves the flag
\* false, raises no error and clears the pending connection, with or without
\* an edge pending update.
C9_ResolverRejection ==
  (/\ Returned("onConnectEnd")
   /\ call.pre.pendingConnection # NullRec
   /\ call.pre.mouseOverNode # Null
   /\ ~call.pre.didUpdateEdge
   /\ call.connection = NullRec)
    => /\ Dispatched = <<>>
       /\ Refreshed = <<>>
       /\ ~AddNodeRequested
       /\ edges = call.pre.edges
       /\ ~didUpdateEdge
       /\ ~call.error
       /\ pendingConnection = NullRec

\* The resolver rejected the candidate of a reconnection.
C9_Witness ==
  /\ Returned("onConnectEnd")
  /\ call.pre.pendingConnection # NullRec
  /\ call.pre.mouseOverNode # Null
  /\ ~call.pre.didUpdateEdge
  /\ call.pre.edgePendingUpdate # NullRec
  /\ call.connection = NullRec
  /\ pendingConnection = NullRec

\* C10: an onConnectEnd call that follows an onConnect call with no
\* onConnectStart call in between does nothing: no mutation, no refresh, no
\* add-node popover, the flag as it was, the pending connection none before
\* and after.
C10_EndAfterConnectIsNoOp ==
  (Returned("onConnectEnd") /\ call.pre.connected)
    => /\ NoEffect
       /\ call.pre.pendingConnection = NullRec
       /\ pendingConnection = NullRec

\* The drag end that follows a confirmed connection came over a node.
C10_Witness ==
  /\ Returned("onConnectEnd")
  /\ call.pre.connected
  /\ call.pre.mouseOverNode # Null
  /\ ~call.pre.didUpdateEdge
  /\ call.pre.edges # {}

\* A field of an event is absent.
Absent(nodeId, handleId, handleType) ==
  nodeId = Null \/ handleId = Null \/ handleType = Null

\* C11: an onConnectStart call with its three fields present raises no error;
\* when the node is not in the store, its type has no template or the handle is
\* not in the outputs (source) or inputs (target) of the template, it leaves the
\* pending connection, the flag and the edges as they were; when the three
\* lookups succeed it records the pending connection, with the field template
\* of the outputs for a source and of the inputs for a target.
C11_StartLookupMissIsSilent ==
  (Returned("onConnectStart") /\ ~Absent(call.nodeId, call.handleId, call.handleType))
    => /\ ~call.error
       /\ effects = <<>>
       /\ didUpdateEdge = call.pre.didUpdateEdge
       /\ edges = call.pre.edges
       /\ IF LookupSucceeds(call.nodeId, call.handleId, call.handleType)
          THEN LET side == IF call.handleType = "source" THEN "outputs" ELSE "inputs"
               IN /\ pendingConnection # NullRec
                  /\ pendingConnection.nodeId = call.nodeId
                  /\ pendingConnection.handleId = call.handleId
                  /\ pendingConnection.handleType = call.handleType
                  /\ pendingConnection.fieldTemplate \in
                       SeqToSet(templates[nodes[call.nodeId]][side])
                  /\ pendingConnection.fieldTemplate.name = call.handleId
          ELSE pendingConnection = call.pre.pendingConnection

\* A lookup missed on a node whose type has no template, during a drag.
C11_Witness ==
  /\ Returned("onConnectStart")
  /\ call.nodeId = "D"
  /\ ~call.error
  /\ call.pre.pendingConnection # NullRec
  /\ pendingConnection = call.pre.pendingConnection

\* C12: an onConnectStart call with a field absent ends in an error and
\* leaves the pending connection, the flag and the edges as they were, even
\* when a lookup would have missed; no other call of the three handlers ends
\* in an error.
C12_StartFailsFast ==
  call # NoCall
    => /\ call.error <=> /\ Returned("onConnectStart")
                         /\ Absent(call.nodeId, call.handleId, call.handleType)
       /\ call.error
            => /\ pendingConnection = call.pre.pendingConnection
               /\ didUpdateEdge = call.pre.didUpdateEdge
               /\ edges = call.pre.edges
               /\ effects = <<>>

\* An event with no handle id ended in an error during a drag.
C12_Witness ==
  /\ Returned("onConnectStart")
  /\ call.handleId = Null
  /\ call.error
  /\ call.pre.pendingConnection # NullRec
  /\ pendingConnection = call.pre.pendingConnection

\* C13: no handler call changes the edge pending update or the node under the
\* mouse, a committed reconnection included.
C13_SingleWriter ==
  call # NoCall
    => /\ edgePendingUpdate = call.pre.edgePendingUpdate
       /\ mouseOverNode = call.pre.mouseOverNode

\* A reconnection was committed and the edge pending update still names the
\* edge that was removed.
C13_Witness ==
  /\ EndCommitted
  /\ call.pre.edgePendingUpdate \in call.pre.edges
  /\ edgePendingUpdate = call.pre.edgePendingUpdate
  /\ edgePendingUpdate \notin edges
  /\ mouseOverNode # Null

\* C14: onConnectEnd with the node of the pending connection under the mouse
\* gets no connection, dispatches no mutation and clears the pending
\* connection; when it goes to the resolver the candidate has the same node as
\* source and target; and no edge onConnectEnd adds has the same node as
\* source and target.
C14_NoSelfLoop ==
  Returned("onConnectEnd")
    => /\ (/\ call.pre.pendingConnection # NullRec
           /\ call.pre.mouseOverNode = call.pre.pendingConnection.nodeId)
            => /\ call.candidate # NullRec => call.candidate.source = call.candidate.target
               /\ call.connection = NullRec
               /\ Dispatched = <<>>
               /\ edges = call.pre.edges
               /\ pendingConnection = NullRec
       /\ \A e \in edges \ call.pre.edges : e.source # e.target

\* The resolver was asked for a self-loop and returned none.
C14_Witness ==
  /\ Returned("onConnectEnd")
  /\ call.candidate # NullRec
  /\ call.candidate.source = call.candidate.target
  /\ call.connection = NullRec
  /\ pendingConnection = NullRec

\* The bail-out test on the cells a call found.
BailedOut ==
  \/ call.pre.edgePendingUpdate # NullRec /\ call.pre.mouseOverNode = Null
  \/ call.pre.didUpdateEdge

\* C15: onConnectEnd with no pending connection, when the bail-out rule does
\* not apply, dispatches no mutation, issues no refresh and does not ask for
\* the add-node popover, with or without a node under the mouse.
C15_EndWithoutPending ==
  (Returned("onConnectEnd") /\ call.pre.pendingConnection = NullRec /\ ~BailedOut)
    => /\ effects = <<>>
       /\ call.candidate = NullRec
       /\ edges = call.pre.edges
       /\ didUpdateEdge = call.pre.didUpdateEdge
       /\ pendingConnection = NullRec

\* A drag end came over the empty canvas with nothing pending.
C15_Witness ==
  /\ Returned("onConnectEnd")
  /\ call.pre.pendingConnection = NullRec
  /\ ~BailedOut
  /\ call.pre.mouseOverNode = Null
  /\ effects = <<>>

\* C16: onConnectEnd goes to the resolver exactly when it did not bail out,
\* has a pending connection and a node under the mouse; the candidate it hands
\* over has the node and handle of the pending connection on the side of its
\* handle type, and the node under the mouse with no handle on the other side,
\* so exactly one handle is none; the edge pending update goes with it as the
\* edge being replaced.
C16_OppositePolarityCandidate ==
  Returned("onConnectEnd")
    => LET p == call.pre.pendingConnection
           m == call.pre.mouseOverNode
           c == call.candidate
       IN /\ c # NullRec <=> (~BailedOut /\ p # NullRec /\ m # Null)
          /\ c # NullRec
               => /\ p.handleType = "source"
                       => Endpoints(c) = Connection(p.nodeId, p.handleId, m, Null)
                  /\ p.handleType = "target"
                       => Endpoints(c) = Connection(m, Null, p.nodeId, p.handleId)
                  /\ p.handleType \in {"source", "target"}
                  /\ (c.sourceHandle = Null) # (c.targetHandle = Null)
                  /\ c.edgeBeingReplaced = call.pre.edgePendingUpdate

\* A drag from a target handle ended over a node during a reconnection.
C16_Witness ==
  /\ Returned("onConnectEnd")
  /\ call.candidate # NullRec
  /\ call.pre.pendingConnection.handleType = "target"
  /\ call.candidate.sourceHandle = Null
  /\ call.candidate.edgeBeingReplaced # NullRec

\* C17: every batch a handler call dispatches has one add as its first change
\* and at most one remove after it, and nothing else; a remove is dispatched by
\* onConnectEnd only, and the identifier it removes is that of the edge pending
\* update the call read.
C17_BatchShape ==
  \A i \in 1..Len(Dispatched) :
    LET changes == Dispatched[i].changes
    IN /\ Len(changes) \in {1, 2}
       /\ changes[1].type = "add"
       /\ Len(changes) = 2
            => /\ changes[2].type = "remove"
               /\ Returned("onConnectEnd")
               /\ call.pre.edgePendingUpdate # NullRec
               /\ changes[2].id = call.pre.edgePendingUpdate.id

\* A batch of an add and a remove was dispatched.
C17_Witness ==
  /\ Len(Dispatched) = 1
  /\ Len(Dispatched[1].changes) = 2
  /\ Dispatched[1].changes[2].type = "remove"

\* The nodes at the ends of the edges a batch adds, and of the edges of a set
\* it removes.
RECURSIVE BatchNodes(_, _)
BatchNodes(changes, es) ==
  IF changes = <<>> THEN {}
  ELSE LET change == Head(changes)
           touched == IF change.type = "add" THEN {change.item}
                      ELSE {e \in es : e.id = change.id}
       IN {e.source : e \in touched} \cup {e.target : e \in touched}
            \cup BatchNodes(Tail(changes), es)

\* C18: a handler call dispatches at most one batch and issues at most one
\* refresh request, the one if and only if the other, the refresh after the
\* dispatch; the nodes refreshed are the nodes at the ends of the edges the
\* batch adds or removes.
C18_MutationAndRefreshTogether ==
  call # NoCall
    => /\ Len(Dispatched) <= 1
       /\ Len(Refreshed) <= 1
       /\ Len(Dispatched) = Len(Refreshed)
       /\ Len(Dispatched) = 1
            => /\ effects = <<Dispatched[1], Refreshed[1]>>
               /\ SeqToSet(Refreshed[1].nodes) =
                    BatchNodes(Dispatched[1].changes, call.pre.edges)

\* A reconnection refreshed the nodes of the edge it added and of the edge it
\* removed.
C18_Witness ==
  /\ call # NoCall
  /\ Len(Dispatched) = 1
  /\ Len(Refreshed) = 1
  /\ Len(Dispatched[1].changes) = 2
  /\ Cardinality(BatchNodes(Dispatched[1].changes, call.pre.edges)) = 3

\* C19: a handler call never resets the flag; it sets it only in onConnectEnd,
\* with an edge pending update and a connection from the resolver; and every
\* onConnectEnd call that finds the flag true bails out: it does not go to the
\* resolver, changes no edge, sends nothing out and leaves the pending
\* connection none.
C19_FlagIsSticky ==
  call # NoCall
    => /\ call.pre.didUpdateEdge => didUpdateEdge
       /\ (didUpdateEdge /\ ~call.pre.didUpdateEdge)
            => (EndCommitted /\ call.pre.edgePendingUpdate # NullRec)
       /\ (Returned("onConnectEnd") /\ call.pre.didUpdateEdge)
            => /\ call.candidate = NullRec
               /\ effects = <<>>
               /\ edges = call.pre.edges
               /\ pendingConnection = NullRec

\* A new gesture, begun after the renderer cleared the edge pending update,
\* ended over a node with the flag still true.
C19_Witness ==
  /\ Returned("onConnectEnd")
  /\ call.pre.didUpdateEdge
  /\ didUpdateEdge
  /\ call.pre.pendingConnection # NullRec
  /\ call.pre.mouseOverNode # Null
  /\ call.pre.edgePendingUpdate = NullRec
  /\ pendingConnection = NullRec

\* C20: the add-node popover is asked for by onConnectEnd only, and only with
\* a pending connection, no node under the mouse, no edge pending update and
\* the flag false; a call that asks for it dispatches no mutation.
C20_AddNodeOnlyOverCanvas ==
  (call # NoCall /\ AddNodeRequested)
    => /\ Returned("onConnectEnd")
       /\ call.pre.pendingConnection # NullRec
       /\ call.pre.mouseOverNode = Null
       /\ call.pre.edgePendingUpdate = NullRec
       /\ ~call.pre.didUpdateEdge
       /\ Dispatched = <<>>
       /\ Refreshed = <<>>
       /\ edges = call.pre.edges

\* The popover was asked for with edges in the store.
C20_Witness ==
  /\ AddNodeRequested
  /\ Returned("onConnectEnd")
  /\ call.pre.edges # {}
  /\ Dispatched = <<>>

====
